---- MODULE Spec2Model ----
(***************************************************************************)
(* KidsStories: the session controller of App.tsx (handleStart,           *)
(* handleReset, the reading-view navigation, the audio player effect with  *)
(* its two toggles) and the three requesters of services/geminiService.ts  *)
(* (generateStoryText, generateSceneImage, generateSceneAudio,             *)
(* addWavHeader).                                                          *)
(*                                                                         *)
(* Strings are sequences of chunks (<<>> is the empty string), so that     *)
(* template literals are concatenations and trim / encodeURIComponent are  *)
(* computed.  A value that may be undefined is a record [set, url].        *)
(* Scene indices are 0-based as in the code; scenes[i + 1] is scene i.     *)
(***************************************************************************)
EXTENDS Integers, Sequences, FiniteSets, TLC

\* ---------------------------------------------------------------- bounds
MaxScenes == 2
MaxStarts == 2
MaxPcmLen == 3

\* ---------------------------------------------------------------- state
VARIABLES
  step,                 \* 0: Input, 1: Loading Text, 3: Reading
  prompt,
  heroName,
  selectedAge,
  selectedGenre,
  selectedArchetypeId,
  story,                \* NullStory or [null, title, scenes]
  currentSceneIndex,
  storyPending,         \* the generateStoryText promise of handleStart is unsettled
  started,              \* number of handleStart calls that passed the guard
  tasks,                \* the forEach callbacks of handleStart, by <<start, index>>
  crashed,              \* a render threw: React unmounted the tree
  isAudioEnabled,       \* narration toggle
  isAmbienceEnabled,    \* ambience toggle
  audioRef,             \* the narration <audio> element, NullRef when not rendered
  ambientRef,           \* the looping ambient <audio> element, NullRef when not rendered
  fnCase,               \* which service function is applied to drawn arguments
  wavIn, wavOut,        \* addWavHeader
  audioIn, audioOut,    \* generateSceneAudio, up to its request
  imgIn, imgOut         \* two calls of generateSceneImage and what they returned

\* ---------------------------------------------------------------- strings
LoneSurrogate == "\\uD800"
Whitespace == {" "}

RECURSIVE TrimStart(_)
TrimStart(s) ==
  IF s # <<>> /\ Head(s) \in Whitespace THEN TrimStart(Tail(s)) ELSE s

RECURSIVE TrimEnd(_)
TrimEnd(s) ==
  IF s # <<>> /\ s[Len(s)] \in Whitespace
    THEN TrimEnd(SubSeq(s, 1, Len(s) - 1))
    ELSE s

Trim(s) == TrimEnd(TrimStart(s))

\* encodeURIComponent: unreserved characters are kept, the others become
\* the %XX escapes of their UTF-8 bytes; a lone surrogate raises URIError.
Unreserved == {"a", "b", "c"}
PercentEscape(c) ==
  IF c = " " THEN <<"%20">> ELSE IF c = "é" THEN <<"%C3", "%A9">> ELSE <<"%3F">>

RECURSIVE EncodeChars(_)
EncodeChars(s) ==
  IF s = <<>> THEN <<>>
  ELSE (IF Head(s) \in Unreserved THEN <<Head(s)>> ELSE PercentEscape(Head(s)))
       \o EncodeChars(Tail(s))

encodeURIComponent(s) ==
  IF \E k \in 1..Len(s) : s[k] = LoneSurrogate
    THEN [threw |-> TRUE, value |-> <<>>]
    ELSE [threw |-> FALSE, value |-> EncodeChars(s)]

\* ---------------------------------------------------------------- types.ts
TODDLER == "3-4 ans"
KIDS == "5-7 ans"
PRETEEN == "8-10 ans"
TEEN == "11-13 ans"
AgeGroup == {TODDLER, KIDS, PRETEEN, TEEN}

ADVENTURE == "Aventure"
MYSTERY == "Mystère"
Genre == {ADVENTURE, MYSTERY}

Undefined == [set |-> FALSE, url |-> <<>>]
Def(u) == [set |-> TRUE, url |-> u]

NullStory == [null |-> TRUE, title |-> <<>>, scenes |-> <<>>]

\* useRef(null), and the ref of an element that is not rendered.
NullRef == [null |-> TRUE, src |-> <<>>, paused |-> TRUE, ended |-> FALSE]

\* ---------------------------------------------------------------- App.tsx constants
HERO_ARCHETYPES ==
  << [id |-> "knight", promptDescription |-> <<"cute little knight">>],
     [id |-> "robot", promptDescription |-> <<"cute friendly round robot">>] >>

ArchetypeIds == {HERO_ARCHETYPES[k].id : k \in 1..Len(HERO_ARCHETYPES)}

\* HERO_ARCHETYPES.find(a => a.id === selectedArchetypeId) || HERO_ARCHETYPES[0]
FindArchetype(id) ==
  IF \E k \in 1..Len(HERO_ARCHETYPES) : HERO_ARCHETYPES[k].id = id
    THEN HERO_ARCHETYPES[CHOOSE k \in 1..Len(HERO_ARCHETYPES) : HERO_ARCHETYPES[k].id = id]
    ELSE HERO_ARCHETYPES[1]

\* ---------------------------------------------------------------- inputs
\* What the user can type in the two text inputs.
PromptInputs == {<<>>, <<" ">>, <<"a">>}
HeroNameInputs == {<<>>, <<"b">>}
FormAges == {KIDS, TEEN}

\* Scene image prompts the text service can return.
PromptA == <<"a", " ", "b">>
PromptBad == <<"a", LoneSurrogate>>

\* JSON.parse(response.text) for a well-formed answer of n scenes.  Odd
\* scenes carry stray imageUrl / audioUrl members and an ambientSound tag;
\* even scenes carry neither.
JsonScene(k, imagePrompt) ==
  [ text |-> <<"t", ToString(k)>>,
    imagePrompt |-> imagePrompt,
    ambientSound |-> IF k % 2 = 1 THEN "FOREST" ELSE "",
    imageUrl |-> IF k % 2 = 1 THEN Def(<<"stray.png">>) ELSE Undefined,
    audioUrl |-> IF k % 2 = 1 THEN Def(<<"stray.wav">>) ELSE Undefined ]

JsonStory(n) ==
  [ null |-> FALSE,
    title |-> <<"T", ToString(n)>>,
    scenes |-> [k \in 1..n |-> JsonScene(k, PromptA)] ]

JsonStoryBad ==
  [ null |-> FALSE,
    title |-> <<"T", "bad">>,
    scenes |-> <<JsonScene(1, PromptBad)>> ]

StoryResponses == {JsonStory(n) : n \in 0..MaxScenes} \cup {JsonStoryBad}

\* The ways generateStoryText (or the code after it inside the try) throws.
StoryFailures == {"rejected", "noText", "badJson", "noScenes"}

\* Answers of the three asset endpoints.
ImagenOutcomes ==
  { [threw |-> TRUE, bytes |-> <<>>],
    [threw |-> FALSE, bytes |-> <<>>],
    [threw |-> FALSE, bytes |-> <<"Qk0=">>] }

FlashOutcomes ==
  { [threw |-> TRUE, data |-> <<>>, mimeType |-> <<>>],
    [threw |-> FALSE, data |-> <<>>, mimeType |-> <<>>],
    [threw |-> FALSE, data |-> <<"iVBO">>, mimeType |-> <<"image/png">>],
    [threw |-> FALSE, data |-> <<"iVBO">>, mimeType |-> <<>>] }

TtsOutcomes ==
  { [threw |-> TRUE, data |-> <<>>],
    [threw |-> FALSE, data |-> <<>>],
    [threw |-> FALSE, data |-> <<"!">>],
    [threw |-> FALSE, data |-> <<"AAAA", "/w==">>] }

\* ---------------------------------------------------------------- generateSceneImage
\* 1. Imagen: the data URL, or Undefined when the chain goes on.
ImagenResult(o) ==
  IF ~o.threw /\ o.bytes # <<>>
    THEN Def(<<"data:image/jpeg;base64,">> \o o.bytes)
    ELSE Undefined

\* 2. Gemini Flash Image: the data URL, or Undefined when the chain goes on.
FlashResult(o) ==
  IF ~o.threw /\ o.data # <<>>
    THEN Def(<<"data:">> \o (IF o.mimeType # <<>> THEN o.mimeType ELSE <<"image/jpeg">>)
             \o <<";base64,">> \o o.data)
    ELSE Undefined

\* 3. Placeholder: the picsum URL seeded by the prompt; threw when
\* encodeURIComponent raises (the promise of generateSceneImage rejects).
\* A seed that also counts the calls made so far.
PlaceholderSeedCounting(imagePrompt) ==
  encodeURIComponent(imagePrompt \o <<IF imgOut = <<>> THEN "a" ELSE "b">>)

PlaceholderSeed(imagePrompt) == encodeURIComponent(imagePrompt)

PlaceholderResult(imagePrompt) ==
  LET enc == PlaceholderSeed(imagePrompt)
  IN  IF enc.threw
        THEN Undefined
        ELSE Def(<<"https://picsum.photos/1024/1024?seed=">> \o enc.value)

PromptB == <<"c", "é">>

\* Gemini Flash Image asked whatever Imagen answered.
AfterImagenAlways(o) == "flash"

\* The source asked after Imagen answered o: none when Imagen's image is returned.
AfterImagen(o) == IF ImagenResult(o).set THEN "return" ELSE "flash"

\* The source used after Gemini Flash Image answered o.
AfterFlash(o) == IF FlashResult(o).set THEN "return" ELSE "placeholder"

\* One call of generateSceneImage from its arguments and the answers the two
\* models give when asked: the requests made, and the URL returned (rejected
\* when the promise rejects instead).
GenerateSceneImage(imagePrompt, heroDescription, imagen, flash) ==
  IF AfterImagen(imagen) = "return"
    THEN [asked |-> <<"imagen">>, rejected |-> FALSE, url |-> ImagenResult(imagen).url]
  ELSE IF AfterFlash(flash) = "return"
    THEN [asked |-> <<"imagen", "flash">>, rejected |-> FALSE, url |-> FlashResult(flash).url]
  ELSE [ asked |-> <<"imagen", "flash", "placeholder">>,
         rejected |-> ~PlaceholderResult(imagePrompt).set,
         url |-> PlaceholderResult(imagePrompt).url ]

\* ---------------------------------------------------------------- generateSceneAudio
\* The storyteller voice given to the teenagers instead of the preteens.
VoiceNameShifted(ageGroup) ==
  IF ageGroup = TODDLER \/ ageGroup = KIDS THEN "Zephyr"
  ELSE IF ageGroup = TEEN THEN "Puck"
  ELSE "Kore"

VoiceName(ageGroup) ==
  IF ageGroup = TODDLER \/ ageGroup = KIDS THEN "Zephyr"
  ELSE IF ageGroup = PRETEEN THEN "Puck"
  ELSE "Kore"

\* atob on whole base64 quanta; threw on a character outside the alphabet.
Base64Quantum(q) ==
  IF q = "AQI=" THEN <<1, 2>>
  ELSE IF q = "/w==" THEN <<255>>
  ELSE IF q = "AAAA" THEN <<0, 0, 0>>
  ELSE <<>>

Base64Valid(q) == q \in {"AQI=", "/w==", "AAAA"}
Base64Padded(q) == q \in {"AQI=", "/w=="}

RECURSIVE AtobBytes(_)
AtobBytes(b64) ==
  IF b64 = <<>> THEN <<>> ELSE Base64Quantum(Head(b64)) \o AtobBytes(Tail(b64))

atob(b64) ==
  IF \E k \in 1..Len(b64) : ~Base64Valid(b64[k]) \/ (k < Len(b64) /\ Base64Padded(b64[k]))
    THEN [threw |-> TRUE, bytes |-> <<>>]
    ELSE [threw |-> FALSE, bytes |-> AtobBytes(b64)]

\* ---------------------------------------------------------------- addWavHeader
\* DataView.setUint32 / setUint16 (little endian) and setUint8 as the bytes written.
\* Taking each byte modulo 256 is the truncation to 32 (16) bits.
Uint32LE(v) ==
  <<v % 256, (v \div 256) % 256, (v \div 65536) % 256, (v \div 16777216) % 256>>

Uint16LE(v) == <<v % 256, (v \div 256) % 256>>

\* charCodeAt of the four tags written by writeString.
CharCodes(tag) ==
  IF tag = "RIFF" THEN <<82, 73, 70, 70>>
  ELSE IF tag = "WAVE" THEN <<87, 65, 86, 69>>
  ELSE IF tag = "fmt " THEN <<102, 109, 116, 32>>
  ELSE <<100, 97, 116, 97>>

\* A write of bytes at a 0-based offset of the buffer (a sequence of bytes).
WriteAt(buffer, offset, bytes) ==
  [k \in 1..Len(buffer) |->
     IF k - 1 >= offset /\ k - 1 < offset + Len(bytes)
       THEN bytes[k - offset]
       ELSE buffer[k]]

writeString(buffer, offset, tag) == WriteAt(buffer, offset, CharCodes(tag))

WavHeaderSize == 44

\* The RIFF size field holding the payload length alone.
addWavHeaderShortRiff(samples, sampleRate, numChannels) ==
  LET b0 == [k \in 1..(WavHeaderSize + Len(samples)) |-> 0]
      b1 == writeString(b0, 0, "RIFF")
      b2 == WriteAt(b1, 4, Uint32LE(Len(samples)))
      b3 == writeString(b2, 8, "WAVE")
      b4 == writeString(b3, 12, "fmt ")
      b5 == WriteAt(b4, 16, Uint32LE(16))
      b6 == WriteAt(b5, 20, Uint16LE(1))
      b7 == WriteAt(b6, 22, Uint16LE(numChannels))
      b8 == WriteAt(b7, 24, Uint32LE(sampleRate))
      b9 == WriteAt(b8, 28, Uint32LE(sampleRate * numChannels * 2))
      b10 == WriteAt(b9, 32, Uint16LE(numChannels * 2))
      b11 == WriteAt(b10, 34, Uint16LE(16))
      b12 == writeString(b11, 36, "data")
      b13 == WriteAt(b12, 40, Uint32LE(Len(samples)))
  IN  WriteAt(b13, WavHeaderSize, samples)

addWavHeader(samples, sampleRate, numChannels) ==
  LET b0 == [k \in 1..(WavHeaderSize + Len(samples)) |-> 0]
      b1 == writeString(b0, 0, "RIFF")
      b2 == WriteAt(b1, 4, Uint32LE(36 + Len(samples)))
      b3 == writeString(b2, 8, "WAVE")
      b4 == writeString(b3, 12, "fmt ")
      b5 == WriteAt(b4, 16, Uint32LE(16))
      b6 == WriteAt(b5, 20, Uint16LE(1))
      b7 == WriteAt(b6, 22, Uint16LE(numChannels))
      b8 == WriteAt(b7, 24, Uint32LE(sampleRate))
      b9 == WriteAt(b8, 28, Uint32LE(sampleRate * numChannels * 2))
      b10 == WriteAt(b9, 32, Uint16LE(numChannels * 2))
      b11 == WriteAt(b10, 34, Uint16LE(16))
      b12 == writeString(b11, 36, "data")
      b13 == WriteAt(b12, 40, Uint32LE(Len(samples)))
  IN  WriteAt(b13, WavHeaderSize, samples)

\* A URL minted whatever the answer.
AudioResultAlwaysUrl(o, id) == <<"blob:">> \o id

\* generateSceneAudio after the await: the blob URL of the WAV, or "" from the catch.
\* URL.createObjectURL mints a URL per call; id names the call.
TtsSampleRate == 24000
TtsChannels == 1

AudioResult(o, id) ==
  IF o.threw \/ o.data = <<>> \/ atob(o.data).threw
    THEN <<>>
    ELSE <<"blob:">> \o id

\* ---------------------------------------------------------------- state tuples
appVars ==
  <<step, prompt, heroName, selectedAge, selectedGenre, selectedArchetypeId, story,
    currentSceneIndex, storyPending, started, tasks, crashed,
    isAudioEnabled, isAmbienceEnabled, audioRef, ambientRef>>
prefVars == <<isAudioEnabled, isAmbienceEnabled>>
refVars == <<audioRef, ambientRef>>
fnVars == <<fnCase, wavIn, wavOut, audioIn, audioOut, imgIn, imgOut>>
vars == <<appVars, fnVars>>

formVars == <<prompt, heroName, selectedAge, selectedGenre, selectedArchetypeId>>

TaskIds == (1..MaxStarts) \X (0..(MaxScenes - 1))

IdleTask ==
  [st |-> "idle", calls |-> <<>>, imagePrompt |-> <<>>, text |-> <<>>]

\* A callback that ran to its end.
DoneTask == [IdleTask EXCEPT !.st = "done"]

Call(src, res) == [src |-> src, res |-> res]

Last(seq) == seq[Len(seq)]
Front(seq) == SubSeq(seq, 1, Len(seq) - 1)

\* The request a callback is awaiting, "" when it awaits none.
Awaiting(t) ==
  IF t.st = "run" /\ t.calls # <<>> /\ Last(t.calls).res = "pending"
    THEN Last(t.calls).src
    ELSE ""

\* useState initial values.
AppInit ==
  /\ step = 0
  /\ prompt = <<>>
  /\ heroName = <<>>
  /\ selectedAge = KIDS
  /\ selectedGenre = ADVENTURE
  /\ selectedArchetypeId = HERO_ARCHETYPES[1].id
  /\ story = NullStory
  /\ currentSceneIndex = 0
  /\ storyPending = FALSE
  /\ started = 0
  /\ tasks = [id \in TaskIds |-> IdleTask]
  /\ crashed = FALSE
  /\ isAudioEnabled = TRUE
  /\ isAmbienceEnabled = TRUE
  /\ audioRef = NullRef
  /\ ambientRef = NullRef

NoWavIn == [samples |-> <<>>, sampleRate |-> 0, numChannels |-> 0]
NoAudioIn == [text |-> <<>>, ageGroup |-> ""]
NoImgIn == <<>>

FnIdle ==
  /\ fnCase = "none"
  /\ wavIn = NoWavIn
  /\ wavOut = <<>>
  /\ audioIn = NoAudioIn
  /\ audioOut = ""
  /\ imgIn = NoImgIn
  /\ imgOut = <<>>

Init == AppInit /\ FnIdle

\* ---------------------------------------------------------------- input view
SetPrompt(v) ==
  /\ step = 0 /\ ~crashed
  /\ prompt' = v
  /\ UNCHANGED <<step, heroName, selectedAge, selectedGenre, selectedArchetypeId, story,
                 currentSceneIndex, storyPending, started, tasks, crashed, prefVars, refVars, fnVars>>

SetHeroName(v) ==
  /\ step = 0 /\ ~crashed
  /\ heroName' = v
  /\ UNCHANGED <<step, prompt, selectedAge, selectedGenre, selectedArchetypeId, story,
                 currentSceneIndex, storyPending, started, tasks, crashed, prefVars, refVars, fnVars>>

SetSelectedAge(a) ==
  /\ step = 0 /\ ~crashed
  /\ selectedAge' = a
  /\ UNCHANGED <<step, prompt, heroName, selectedGenre, selectedArchetypeId, story,
                 currentSceneIndex, storyPending, started, tasks, crashed, prefVars, refVars, fnVars>>

SetSelectedGenre(g) ==
  /\ step = 0 /\ ~crashed
  /\ selectedGenre' = g
  /\ UNCHANGED <<step, prompt, heroName, selectedAge, selectedArchetypeId, story,
                 currentSceneIndex, storyPending, started, tasks, crashed, prefVars, refVars, fnVars>>

SetSelectedArchetypeId(a) ==
  /\ step = 0 /\ ~crashed
  /\ selectedArchetypeId' = a
  /\ UNCHANGED <<step, prompt, heroName, selectedAge, selectedGenre, story,
                 currentSceneIndex, storyPending, started, tasks, crashed, prefVars, refVars, fnVars>>

\* ---------------------------------------------------------------- audio player effect
AMBIENT_SOUNDS_URLS ==
  [ FOREST |-> <<"forest_wind.ogg">>,
    OCEAN |-> <<"ocean_waves.ogg">>,
    CALM |-> <<"meadow_birds.ogg">> ]

\* currentScene?.ambientSound || 'CALM'
AmbientType(scene) == IF scene.ambientSound = "" THEN "CALM" ELSE scene.ambientSound

\* An <audio> element as React creates it.
FreshRef == [null |-> FALSE, src |-> <<>>, paused |-> TRUE, ended |-> FALSE]

\* pause(); src = url; load(); play() when narration is on.  The user has
\* clicked the start button, so play() is not refused.
LoadNarration(url, enabled) ==
  [null |-> FALSE, src |-> url, paused |-> ~enabled, ended |-> FALSE]

\* The source is the scene's already: resume when narration is on and the
\* track was paused before its end, pause when narration is off.
SameNarration(el, enabled) ==
  IF enabled
    THEN IF el.paused /\ ~el.ended THEN [el EXCEPT !.paused = FALSE] ELSE el
    ELSE [el EXCEPT !.paused = TRUE]

\* Part 1 of the effect: the narration element for the current scene.
NarrationEffect(el, scene, enabled) ==
  IF scene.audioUrl.set /\ scene.audioUrl.url # <<>>
    THEN IF el.src # scene.audioUrl.url
           THEN LoadNarration(scene.audioUrl.url, enabled)
           ELSE SameNarration(el, enabled)
    ELSE [el EXCEPT !.paused = TRUE]

\* The bed ducked under the narration: paused while the scene has a track.
AmbientEffectDucking(el, scene, enabled) ==
  IF enabled /\ ~(scene.audioUrl.set /\ scene.audioUrl.url # <<>>)
    THEN [el EXCEPT !.src = AMBIENT_SOUNDS_URLS[AmbientType(scene)], !.paused = FALSE]
    ELSE [el EXCEPT !.paused = TRUE]

\* Part 2 of the effect: the ambient element for the current scene.
AmbientEffect(el, scene, enabled) ==
  IF enabled
    THEN [el EXCEPT !.src = AMBIENT_SOUNDS_URLS[AmbientType(scene)], !.paused = FALSE]
    ELSE [el EXCEPT !.paused = TRUE]

\* The reading view is rendered: step 3 with a story, and no render threw.
Rendered(st, s, c) == st = 3 /\ ~s.null /\ ~c

\* The two <audio> elements after the step: they exist while the reading view
\* is rendered, and the effect runs after a render in which one of its
\* dependencies [currentSceneIndex, step, story, isAudioEnabled,
\* isAmbienceEnabled] changed.
AudioPlayerEffectOn(audioNow, ambientNow) ==
  LET before == <<currentSceneIndex, step, story, isAudioEnabled, isAmbienceEnabled>>
      after == <<currentSceneIndex', step', story', isAudioEnabled', isAmbienceEnabled'>>
      wasRendered == Rendered(step, story, crashed)
      audioEl == IF wasRendered THEN audioNow ELSE FreshRef
      ambientEl == IF wasRendered THEN ambientNow ELSE FreshRef
      currentScene == story'.scenes[currentSceneIndex' + 1]
  IN  IF ~Rendered(step', story', crashed')
        THEN audioRef' = NullRef /\ ambientRef' = NullRef
        ELSE IF before = after /\ wasRendered
          THEN audioRef' = audioNow /\ ambientRef' = ambientNow
          ELSE /\ audioRef' = NarrationEffect(audioEl, currentScene, isAudioEnabled')
               /\ ambientRef' = AmbientEffect(ambientEl, currentScene, isAmbienceEnabled')

AudioPlayerEffect == AudioPlayerEffectOn(audioRef, ambientRef)

\* ---------------------------------------------------------------- handleStart
\* Up to the await of generateStoryText.  The form is rendered at step 0 only,
\* so the values the closure captured are the state's until the promise settles.
HandleStart ==
  /\ step = 0 /\ ~crashed
  /\ Trim(prompt) # <<>> /\ Trim(heroName) # <<>>
  /\ started < MaxStarts
  /\ step' = 1
  /\ storyPending' = TRUE
  /\ started' = started + 1
  /\ UNCHANGED <<formVars, story, currentSceneIndex, tasks, crashed, prefVars, refVars, fnVars>>

\* The scenes installed as parsed.
InitialSceneAsParsed(s) == s

\* generatedStory.scenes.map(s => ({ ...s, imageUrl: undefined, audioUrl: undefined }))
InitialScene(s) == [s EXCEPT !.imageUrl = Undefined, !.audioUrl = Undefined]

InitialScenes(scenes) == [k \in 1..Len(scenes) |-> InitialScene(scenes[k])]

\* Both requests of a scene sent before any await.
LaunchedCallsBoth == <<Call("tts", "pending"), Call("imagen", "pending")>>

\* What one forEach callback has asked for when forEach returns.
LaunchedCalls == <<Call("imagen", "pending")>>

\* The hero description and the age group a callback captured only shape the
\* requests it sends, whose answers are drawn freely: they are not kept.
LaunchedTask(scene) ==
  [ st |-> "run", calls |-> LaunchedCalls,
    imagePrompt |-> scene.imagePrompt, text |-> scene.text ]

\* renderStoryView reads scene.imageUrl of story.scenes[currentSceneIndex].
RenderThrows(st, s, idx) == st = 3 /\ ~s.null /\ idx >= Len(s.scenes)

\* The story promise resolved with generatedStory: the story is installed with
\* empty slots, the view switches and every scene's callback runs to its first await.
StoryResolve(generatedStory) ==
  /\ storyPending
  /\ storyPending' = FALSE
  /\ story' = [generatedStory EXCEPT !.scenes = InitialScenes(generatedStory.scenes)]
  /\ step' = 3
  /\ currentSceneIndex' = 0
  /\ tasks' = [id \in TaskIds |->
                 IF id[1] = started /\ id[2] < Len(generatedStory.scenes)
                   THEN LaunchedTask(generatedStory.scenes[id[2] + 1])
                   ELSE tasks[id]]
  /\ crashed' = RenderThrows(3, story', 0)
  /\ UNCHANGED <<formVars, started, prefVars, fnVars>>
  /\ AudioPlayerEffect

\* The catch block going back to an emptied form, as handleReset does.
StoryRejectClearing(why) ==
  /\ storyPending
  /\ storyPending' = FALSE
  /\ step' = 0
  /\ prompt' = <<>>
  /\ UNCHANGED <<heroName, selectedAge, selectedGenre, selectedArchetypeId, story,
                 currentSceneIndex, started, tasks, crashed, prefVars, refVars, fnVars>>

\* The promise rejected, or the code up to setStory threw: the catch block.
StoryReject(why) ==
  /\ storyPending
  /\ storyPending' = FALSE
  /\ step' = 0
  /\ UNCHANGED <<formVars, story, currentSceneIndex, started, tasks, crashed,
                 prefVars, refVars, fnVars>>

\* ---------------------------------------------------------------- asset merges
\* newScenes[index] is undefined when the story has no scene index: reading
\* .imageUrl / .audioUrl of it throws inside the updater, that is in the render.
UpdaterThrows(prev, index) == ~prev.null /\ index >= Len(prev.scenes)

\* The image written to the first scene whatever the index.
SetStoryImageFirst(prev, index, imgUrl) ==
  IF prev.null THEN NullStory
  ELSE [prev EXCEPT !.scenes[1].imageUrl = Def(imgUrl)]

\* The updater handed to setStory with an image result.
SetStoryImage(prev, index, imgUrl) ==
  IF prev.null THEN NullStory
  ELSE IF prev.scenes[index + 1].imageUrl # Def(imgUrl)
    THEN [prev EXCEPT !.scenes[index + 1].imageUrl = Def(imgUrl)]
    ELSE prev

\* The updater handed to setStory with an audio result.
SetStoryAudio(prev, index, audioUrl) ==
  IF prev.null THEN NullStory
  ELSE IF prev.scenes[index + 1].audioUrl # Def(audioUrl)
    THEN [prev EXCEPT !.scenes[index + 1].audioUrl = Def(audioUrl)]
    ELSE prev

\* What a source's answer is logged as.
Res(ok) == IF ok THEN "ok" ELSE "fail"

\* The audio asked only when a model delivered the image: one try around both parts.
CallsAfterImageFromModel(calls) ==
  IF calls[Len(calls)].src = "placeholder" THEN calls ELSE calls \o <<Call("tts", "pending")>>

\* After the image try / catch the callback goes on to generateSceneAudio,
\* whatever the image part did.
CallsAfterImage(calls) == calls \o <<Call("tts", "pending")>>

\* The image part of a callback is over with result img (Undefined when
\* generateSceneImage rejected and the catch logged it): the image is merged and
\* generateSceneAudio is called, up to its await.
ImageSettled(id, img, calls) ==
  LET throws == img.set /\ ~crashed /\ UpdaterThrows(story, id[2])
  IN  /\ story' = IF img.set /\ ~crashed /\ ~throws
                    THEN SetStoryImage(story, id[2], img.url)
                    ELSE story
      /\ crashed' = (crashed \/ throws)
      /\ tasks' = [tasks EXCEPT ![id].calls = CallsAfterImage(calls)]

\* The Imagen request of callback id settled with o.
ImagenResolve(id, o) ==
  LET answered == Front(tasks[id].calls) \o <<Call("imagen", Res(ImagenResult(o).set))>>
  IN  /\ Awaiting(tasks[id]) = "imagen"
      /\ IF AfterImagen(o) = "return"
           THEN ImageSettled(id, ImagenResult(o), answered)
           ELSE /\ tasks' = [tasks EXCEPT ![id].calls = answered \o <<Call("flash", "pending")>>]
                /\ UNCHANGED <<story, crashed>>
      /\ UNCHANGED <<step, formVars, currentSceneIndex, storyPending, started, prefVars, fnVars>>
      /\ AudioPlayerEffect

\* The Gemini Flash Image request of callback id settled with o.
FlashResolve(id, o) ==
  LET answered == Front(tasks[id].calls) \o <<Call("flash", Res(FlashResult(o).set))>>
      p == PlaceholderResult(tasks[id].imagePrompt)
  IN  /\ Awaiting(tasks[id]) = "flash"
      /\ IF AfterFlash(o) = "return"
           THEN ImageSettled(id, FlashResult(o), answered)
           ELSE ImageSettled(id, p, answered \o <<Call("placeholder", Res(p.set))>>)
      /\ UNCHANGED <<step, formVars, currentSceneIndex, storyPending, started, prefVars, fnVars>>
      /\ AudioPlayerEffect

BlobId(id) == <<ToString(id[1]), "/", ToString(id[2])>>

\* The TTS request of callback id settled with o: the audio is merged, the callback ends.
TtsResolve(id, o) ==
  LET audioUrl == AudioResult(o, BlobId(id))
      throws == ~crashed /\ UpdaterThrows(story, id[2])
  IN  /\ Awaiting(tasks[id]) = "tts"
      /\ story' = IF ~crashed /\ ~throws THEN SetStoryAudio(story, id[2], audioUrl) ELSE story
      /\ crashed' = (crashed \/ throws)
      /\ tasks' = [tasks EXCEPT ![id] = DoneTask]
      /\ UNCHANGED <<step, formVars, currentSceneIndex, storyPending, started, prefVars, fnVars>>
      /\ AudioPlayerEffect

\* ---------------------------------------------------------------- reading view
Reading == step = 3 /\ ~story.null /\ ~crashed

\* The last scene taken to be the one after the last.
isLastSceneOffByOne == currentSceneIndex = Len(story.scenes)

isLastScene == currentSceneIndex = Len(story.scenes) - 1

Max(a, b) == IF a >= b THEN a ELSE b

\* A reset that keeps the reader's position.
HandleResetKeepingIndex ==
  /\ step' = 0
  /\ prompt' = <<>>
  /\ story' = NullStory
  /\ UNCHANGED <<heroName, selectedAge, selectedGenre, selectedArchetypeId, currentSceneIndex,
                 storyPending, started, tasks, crashed, prefVars, fnVars>>
  /\ AudioPlayerEffect

HandleResetEffect ==
  /\ step' = 0
  /\ prompt' = <<>>
  /\ story' = NullStory
  /\ currentSceneIndex' = 0
  /\ UNCHANGED <<heroName, selectedAge, selectedGenre, selectedArchetypeId,
                 storyPending, started, tasks, crashed, prefVars, fnVars>>
  /\ AudioPlayerEffect

\* The Accueil button.
HandleReset ==
  /\ Reading
  /\ HandleResetEffect

\* The next scene only once the current scene's image has arrived.
NextSceneIndexWhenLoaded(idx) ==
  IF story.scenes[idx + 1].imageUrl.set THEN idx + 1 ELSE idx

NextSceneIndex(idx) == idx + 1

\* The Suivant / Recommencer button.
NextClick ==
  /\ Reading
  /\ IF isLastScene
       THEN HandleResetEffect
       ELSE /\ currentSceneIndex' = NextSceneIndex(currentSceneIndex)
            /\ crashed' = RenderThrows(step, story, currentSceneIndex')
            /\ UNCHANGED <<step, formVars, story, storyPending, started, tasks, prefVars, fnVars>>
            /\ AudioPlayerEffect

PrevSceneIndex(idx) == Max(0, idx - 1)

\* The previous button, disabled at scene 0.
PrevClick ==
  /\ Reading
  /\ currentSceneIndex # 0
  /\ currentSceneIndex' = PrevSceneIndex(currentSceneIndex)
  /\ UNCHANGED <<step, formVars, story, storyPending, started, tasks, crashed, prefVars, fnVars>>
  /\ AudioPlayerEffect

\* The narration toggle.
ToggleNarration ==
  /\ Reading
  /\ isAudioEnabled' = ~isAudioEnabled
  /\ UNCHANGED <<step, formVars, story, currentSceneIndex, storyPending, started, tasks,
                 crashed, isAmbienceEnabled, fnVars>>
  /\ AudioPlayerEffect

\* The ambience toggle.
ToggleAmbience ==
  /\ Reading
  /\ isAmbienceEnabled' = ~isAmbienceEnabled
  /\ UNCHANGED <<step, formVars, story, currentSceneIndex, storyPending, started, tasks,
                 crashed, isAudioEnabled, fnVars>>
  /\ AudioPlayerEffect

\* The narration element is playing a track.
Playing(el) == ~el.null /\ el.src # <<>> /\ ~el.paused /\ ~el.ended

\* An element whose playback reached the end of its track: it has ended and
\* is paused, and the ended event is fired at it.
EndedRef(el) == [el EXCEPT !.ended = TRUE, !.paused = TRUE]

\* Advance from whatever scene, wrapping to the first after the last.
OnEndedIndexWrapping(idx) == (idx + 1) % Len(story.scenes)

\* onEnded={() => !isLastScene && setCurrentSceneIndex(i => i + 1)}
OnEndedIndex(idx) == IF ~isLastScene THEN idx + 1 ELSE idx

\* The narration track reaches its end and the onEnded handler runs.
NarrationEnded ==
  /\ Reading
  /\ Playing(audioRef)
  /\ currentSceneIndex' = OnEndedIndex(currentSceneIndex)
  /\ crashed' = RenderThrows(step, story, currentSceneIndex')
  /\ UNCHANGED <<step, formVars, story, storyPending, started, tasks, prefVars, fnVars>>
  /\ AudioPlayerEffectOn(EndedRef(audioRef), ambientRef)

\* ---------------------------------------------------------------- specification
Next ==
  \/ \E v \in PromptInputs : SetPrompt(v)
  \/ \E v \in HeroNameInputs : SetHeroName(v)
  \/ \E a \in FormAges : SetSelectedAge(a)
  \/ \E g \in Genre : SetSelectedGenre(g)
  \/ \E a \in ArchetypeIds : SetSelectedArchetypeId(a)
  \/ HandleStart
  \/ \E r \in StoryResponses : StoryResolve(r)
  \/ \E w \in StoryFailures : StoryReject(w)
  \/ \E id \in TaskIds : \E o \in ImagenOutcomes : ImagenResolve(id, o)
  \/ \E id \in TaskIds : \E o \in FlashOutcomes : FlashResolve(id, o)
  \/ \E id \in TaskIds : \E o \in TtsOutcomes : TtsResolve(id, o)
  \/ HandleReset
  \/ NextClick
  \/ PrevClick
  \/ ToggleNarration
  \/ ToggleAmbience
  \/ NarrationEnded

Spec == Init /\ [][Next]_vars

\* The runs in which the user leaves the three selects at their initial values
\* (they are read only to build the requests, whose answers are drawn freely),
\* does not touch the two toggles and leaves each scene before its narration ends.
SessionNext ==
  \/ \E v \in PromptInputs : SetPrompt(v)
  \/ \E v \in HeroNameInputs : SetHeroName(v)
  \/ HandleStart
  \/ \E r \in StoryResponses : StoryResolve(r)
  \/ \E w \in StoryFailures : StoryReject(w)
  \/ \E id \in TaskIds : \E o \in ImagenOutcomes : ImagenResolve(id, o)
  \/ \E id \in TaskIds : \E o \in FlashOutcomes : FlashResolve(id, o)
  \/ \E id \in TaskIds : \E o \in TtsOutcomes : TtsResolve(id, o)
  \/ HandleReset
  \/ NextClick
  \/ PrevClick

SessionSpec == Init /\ [][SessionNext]_vars

\* The runs of the reading view with its two players: the selects are left at
\* their initial values and Imagen delivers every image it is asked for, so
\* that no fallback is tried.
ImagenDelivers == {o \in ImagenOutcomes : ImagenResult(o).set}

PlayerNext ==
  \/ \E v \in PromptInputs : SetPrompt(v)
  \/ \E v \in HeroNameInputs : SetHeroName(v)
  \/ HandleStart
  \/ \E r \in StoryResponses : StoryResolve(r)
  \/ \E w \in StoryFailures : StoryReject(w)
  \/ \E id \in TaskIds : \E o \in ImagenDelivers : ImagenResolve(id, o)
  \/ \E id \in TaskIds : \E o \in TtsOutcomes : TtsResolve(id, o)
  \/ HandleReset
  \/ NextClick
  \/ PrevClick
  \/ ToggleNarration
  \/ ToggleAmbience
  \/ NarrationEnded

PlayerSpec == Init /\ [][PlayerNext]_vars

\* The runs of the form and of the session it starts: every input of the form
\* is used, Imagen delivers every image it is asked for, and the user moves
\* through the story without touching the two toggles, leaving each scene
\* before its narration ends.
FormNext ==
  \/ \E v \in PromptInputs : SetPrompt(v)
  \/ \E v \in HeroNameInputs : SetHeroName(v)
  \/ \E a \in FormAges : SetSelectedAge(a)
  \/ \E g \in Genre : SetSelectedGenre(g)
  \/ \E a \in ArchetypeIds : SetSelectedArchetypeId(a)
  \/ HandleStart
  \/ \E r \in StoryResponses : StoryResolve(r)
  \/ \E w \in StoryFailures : StoryReject(w)
  \/ \E id \in TaskIds : \E o \in ImagenDelivers : ImagenResolve(id, o)
  \/ \E id \in TaskIds : \E o \in TtsOutcomes : TtsResolve(id, o)
  \/ HandleReset
  \/ NextClick
  \/ PrevClick

FormSpec == Init /\ [][FormNext]_vars

\* The runs in which the user never resets, does not touch the two toggles,
\* leaves each scene before its narration ends, and every asset request settles.
NoResetNext ==
  \/ \E v \in PromptInputs : SetPrompt(v)
  \/ \E v \in HeroNameInputs : SetHeroName(v)
  \/ \E a \in FormAges : SetSelectedAge(a)
  \/ \E g \in Genre : SetSelectedGenre(g)
  \/ \E a \in ArchetypeIds : SetSelectedArchetypeId(a)
  \/ HandleStart
  \/ \E r \in StoryResponses : StoryResolve(r)
  \/ \E w \in StoryFailures : StoryReject(w)
  \/ \E id \in TaskIds : \E o \in ImagenOutcomes : ImagenResolve(id, o)
  \/ \E id \in TaskIds : \E o \in FlashOutcomes : FlashResolve(id, o)
  \/ \E id \in TaskIds : \E o \in TtsOutcomes : TtsResolve(id, o)
  \/ (NextClick /\ ~isLastScene)
  \/ PrevClick

NoResetSpec ==
  /\ Init
  /\ [][NoResetNext]_vars
  /\ \A id \in TaskIds :
       /\ WF_vars(\E o \in ImagenOutcomes : ImagenResolve(id, o))
       /\ WF_vars(\E o \in FlashOutcomes : FlashResolve(id, o))
       /\ WF_vars(\E o \in TtsOutcomes : TtsResolve(id, o))

\* ---------------------------------------------------------------- the service functions on drawn arguments
SampleBytes == {0, 1, 255}
SampleRates == {8000, TtsSampleRate, 44100}
ChannelCounts == {TtsChannels, 2}

RECURSIVE SeqsUpTo(_, _)
SeqsUpTo(S, n) ==
  IF n = 0 THEN {<<>>}
  ELSE LET shorter == SeqsUpTo(S, n - 1)
       IN  shorter \cup {Append(q, x) : q \in shorter, x \in S}

WavInputs ==
  [samples : SeqsUpTo(SampleBytes, MaxPcmLen), sampleRate : SampleRates, numChannels : ChannelCounts]

\* An ageGroup outside the enum reaches the function from untyped callers.
AudioInputs == [text : SeqsUpTo({"a", " "}, 2), ageGroup : AgeGroup \cup {"14+ ans"}]

ImageInputs ==
  [ imagePrompt : {PromptA, PromptB, PromptBad},
    heroDescription : {HERO_ARCHETYPES[k].promptDescription : k \in 1..Len(HERO_ARCHETYPES)},
    imagen : ImagenOutcomes,
    flash : FlashOutcomes ]

\* The scene index of the callback that makes call k.
CallerIndex(k) == k - 1

FnInit ==
  /\ AppInit
  /\ \/ /\ fnCase = "wav"
        /\ wavIn \in WavInputs
        /\ audioIn = NoAudioIn /\ imgIn = NoImgIn
     \/ /\ fnCase = "voice"
        /\ audioIn \in AudioInputs
        /\ wavIn = NoWavIn /\ imgIn = NoImgIn
     \/ /\ fnCase = "image"
        /\ imgIn \in ImageInputs \X ImageInputs
        /\ wavIn = NoWavIn /\ audioIn = NoAudioIn
  /\ wavOut = <<>>
  /\ audioOut = ""
  /\ imgOut = <<>>

CallAddWavHeader ==
  /\ fnCase = "wav" /\ wavOut = <<>>
  /\ wavOut' = addWavHeader(wavIn.samples, wavIn.sampleRate, wavIn.numChannels)
  /\ UNCHANGED <<appVars, fnCase, wavIn, audioIn, audioOut, imgIn, imgOut>>

CallGenerateSceneAudio ==
  /\ fnCase = "voice" /\ audioOut = ""
  /\ audioOut' = VoiceName(audioIn.ageGroup)
  /\ UNCHANGED <<appVars, fnCase, wavIn, wavOut, audioIn, imgIn, imgOut>>

CallGenerateSceneImage(k) ==
  /\ fnCase = "image"
  /\ \A j \in 1..Len(imgOut) : imgOut[j].call # k
  /\ imgOut' = Append(imgOut,
       [ call |-> k,
         ret |-> GenerateSceneImage(imgIn[k].imagePrompt, imgIn[k].heroDescription,
                                    imgIn[k].imagen, imgIn[k].flash) ])
  /\ UNCHANGED <<appVars, fnCase, wavIn, wavOut, audioIn, audioOut, imgIn>>

FnNext ==
  \/ CallAddWavHeader
  \/ CallGenerateSceneAudio
  \/ \E k \in 1..2 : CallGenerateSceneImage(k)

FnSpec == FnInit /\ [][FnNext]_vars

\* ---------------------------------------------------------------- claims
ImageSources == {"imagen", "flash", "placeholder"}

\* The calls of a callback that belong to its image part.
ImageCalls(t) == SelectSeq(t.calls, LAMBDA c : c.src \in ImageSources)

HasCall(t, src) == \E k \in 1..Len(t.calls) : t.calls[k].src = src

ImagePartOver(t) ==
  /\ ImageCalls(t) # <<>>
  /\ \A k \in 1..Len(ImageCalls(t)) : ImageCalls(t)[k].res # "pending"

AnyImagenResolve(id) == \E o \in ImagenOutcomes : ImagenResolve(id, o)
AnyFlashResolve(id) == \E o \in FlashOutcomes : FlashResolve(id, o)
AnyTtsResolve(id) == \E o \in TtsOutcomes : TtsResolve(id, o)

\* The steps in which a request of callback id settles, read off its log.
ImageRequestSettles(id) == Awaiting(tasks[id]) \in {"imagen", "flash"} /\ tasks'[id] # tasks[id]
AudioRequestSettles(id) == Awaiting(tasks[id]) = "tts" /\ tasks'[id] # tasks[id]

\* C1 as stated: whenever a scene's callback is running, both its image request
\* and its audio request have been sent (the audio request does not wait for the
\* image request), for every scene of the story.
C1_AudioLaunchedWithImage ==
  \A id \in TaskIds :
    tasks[id].st = "run" => HasCall(tasks[id], "imagen") /\ HasCall(tasks[id], "tts")

\* C1 amended: when the story is installed every scene's callback has sent its
\* image request and no callback waits for another one (the request a callback
\* awaits can settle whatever the other callbacks do); within a scene the audio
\* request is sent only once the image part is over.
C1_AudioAfterImagePerScene ==
  /\ ~story.null =>
       \A i \in 0..(Len(story.scenes) - 1) : tasks[<<started, i>>].st # "idle"
  /\ \A id \in TaskIds :
       /\ tasks[id].st = "run" =>
            /\ tasks[id].calls[1].src = "imagen"
            /\ HasCall(tasks[id], "tts") <=> ImagePartOver(tasks[id])
       /\ Awaiting(tasks[id]) = "imagen" => ENABLED AnyImagenResolve(id)
       /\ Awaiting(tasks[id]) = "flash" => ENABLED AnyFlashResolve(id)
       /\ Awaiting(tasks[id]) = "tts" => ENABLED AnyTtsResolve(id)

\* Scene 1 already awaits its audio while scene 0 still awaits its first image model.
C1_Witness ==
  /\ Reading
  /\ Awaiting(tasks[<<started, 0>>]) = "imagen"
  /\ Awaiting(tasks[<<started, 1>>]) = "tts"

\* Scene i's record but for one asset slot.
SameBut(field, a, b) ==
  /\ a.text = b.text
  /\ a.imagePrompt = b.imagePrompt
  /\ a.ambientSound = b.ambientSound
  /\ field # "imageUrl" => a.imageUrl = b.imageUrl
  /\ field # "audioUrl" => a.audioUrl = b.audioUrl

OnlySlotChanges(field, i) ==
  /\ story'.null = story.null
  /\ story'.title = story.title
  /\ Len(story'.scenes) = Len(story.scenes)
  /\ \A k \in 1..Len(story.scenes) :
       IF k = i + 1
         THEN SameBut(field, story'.scenes[k], story.scenes[k])
         ELSE story'.scenes[k] = story.scenes[k]

\* C2: a step that settles the image of scene i changes nothing of the story but
\* scenes[i].imageUrl, and a step that settles the audio of scene i nothing but
\* scenes[i].audioUrl.
C2_PatchOwnSlotOnly ==
  [][\A id \in TaskIds :
       /\ ImageRequestSettles(id) => OnlySlotChanges("imageUrl", id[2])
       /\ AudioRequestSettles(id) => OnlySlotChanges("audioUrl", id[2])]_vars

\* Scene 1 has both assets while scene 0 has none.
C2_Witness ==
  /\ Reading
  /\ Len(story.scenes) = 2
  /\ story.scenes[2].imageUrl.set /\ story.scenes[2].audioUrl.set
  /\ ~story.scenes[1].imageUrl.set /\ ~story.scenes[1].audioUrl.set

\* C3: Imagen is asked first; Gemini Flash Image is asked second and only after
\* Imagen failed; the placeholder comes third and only after Gemini Flash Image
\* failed; nothing is asked after a source that succeeded.
C3_FallbackOrder ==
  \A id \in TaskIds :
    LET c == ImageCalls(tasks[id])
    IN  /\ tasks[id].st = "run" => c # <<>> /\ c[1].src = "imagen"
        /\ \A k \in 1..Len(c) :
             /\ c[k].src = "imagen" => k = 1
             /\ c[k].src = "flash" => k = 2 /\ c[1] = Call("imagen", "fail")
             /\ c[k].src = "placeholder" => k = 3 /\ c[2] = Call("flash", "fail")
             /\ c[k].res = "ok" => k = Len(c)

\* A callback that went through the three sources.
C3_Witness ==
  \E id \in TaskIds :
    ImageCalls(tasks[id]) =
      <<Call("imagen", "fail"), Call("flash", "fail"), Call("placeholder", "ok")>>

\* C4: while the story request is pending the step is 1 and no callback of that
\* start has sent a request; the step that resolves it sets the step to 3 and the
\* index to 0 and installs every scene with both asset slots undefined.
C4_BlockingThenEmptySlots ==
  /\ [](storyPending =>
          /\ step = 1
          /\ \A i \in 0..(MaxScenes - 1) : tasks[<<started, i>>].st = "idle")
  /\ [][(\E r \in StoryResponses : StoryResolve(r)) =>
          /\ step' = 3
          /\ currentSceneIndex' = 0
          /\ \A k \in 1..Len(story'.scenes) :
               story'.scenes[k].imageUrl = Undefined /\ story'.scenes[k].audioUrl = Undefined]_vars

\* The two-scene story, whose JSON carried asset members, just installed.
C4_Witness ==
  /\ step = 3 /\ currentSceneIndex = 0
  /\ Len(story.scenes) = 2
  /\ JsonStory(2).scenes[1].imageUrl.set
  /\ \A i \in 0..1 : Awaiting(tasks[<<started, i>>]) = "imagen"
  /\ \A k \in 1..2 : ~story.scenes[k].imageUrl.set /\ ~story.scenes[k].audioUrl.set

\* C5 as stated, on the runs without reset: once every request of scene i has
\* settled, scenes[i].imageUrl is a non-empty string and scenes[i].audioUrl is defined.
C5_SettledSlotsFilled ==
  \A i \in 0..(MaxScenes - 1) :
    (~story.null /\ i < Len(story.scenes) /\ tasks[<<started, i>>].st = "done") =>
      /\ story.scenes[i + 1].imageUrl.set
      /\ story.scenes[i + 1].imageUrl.url # <<>>
      /\ story.scenes[i + 1].audioUrl.set

NextAdvances == NextClick /\ currentSceneIndex' = currentSceneIndex + 1
PrevGoesBack == PrevClick /\ currentSceneIndex' = currentSceneIndex - 1

\* C6: in the reading view Next (before the last scene) and Previous (after the
\* first) can move the index by one whatever the asset slots hold, and a step
\* that settles an asset request changes neither the index nor the step.
C6_NavigationIndependentOfAssets ==
  /\ [](Reading /\ ~isLastScene => ENABLED NextAdvances)
  /\ [](Reading /\ currentSceneIndex > 0 => ENABLED PrevGoesBack)
  /\ [][(\E id \in TaskIds : ImageRequestSettles(id) \/ AudioRequestSettles(id)) =>
          currentSceneIndex' = currentSceneIndex /\ step' = step]_vars

\* The user is at scene 1 while no slot of scene 0 or of scene 1 is filled.
C6_Witness ==
  /\ Reading
  /\ currentSceneIndex = 1
  /\ \A k \in 1..2 : ~story.scenes[k].imageUrl.set /\ ~story.scenes[k].audioUrl.set

Logged(t, src, res) == \E k \in 1..Len(t.calls) : t.calls[k] = Call(src, res)

\* The steps in which an image model fails for callback id, read off its log.
ImagenFails(id) == Awaiting(tasks[id]) = "imagen" /\ Logged(tasks'[id], "imagen", "fail")
FlashFails(id) == Awaiting(tasks[id]) = "flash" /\ Logged(tasks'[id], "flash", "fail")

OfInstalledStory(id) == ~story.null /\ ~crashed /\ id[1] = started

\* C7: a step in which an image model of scene i fails, or in which the narration
\* request of scene i settles (failed or not), leaves the step, the index and the
\* presence of the story as they are and touches no other callback; after Imagen
\* fails the callback awaits Gemini Flash Image, after both failed it awaits the
\* narration; and for a callback of the installed story (the tree being mounted)
\* nothing is unmounted, the settled narration fills the audio slot, with the
\* empty string at worst, and leaves the image slot as it is.
C7_FailuresIsolated ==
  [][\A id \in TaskIds :
       /\ (ImagenFails(id) \/ FlashFails(id) \/ AudioRequestSettles(id)) =>
            /\ step' = step
            /\ currentSceneIndex' = currentSceneIndex
            /\ story'.null = story.null
            /\ \A other \in TaskIds \ {id} : tasks'[other] = tasks[other]
       /\ ImagenFails(id) => Awaiting(tasks'[id]) = "flash"
       /\ FlashFails(id) => Awaiting(tasks'[id]) = "tts"
       /\ (OfInstalledStory(id) /\ FlashFails(id)) => crashed' = crashed
       /\ (OfInstalledStory(id) /\ AudioRequestSettles(id)) =>
            /\ crashed' = crashed
            /\ story'.scenes[id[2] + 1].audioUrl.set
            /\ story'.scenes[id[2] + 1].imageUrl = story.scenes[id[2] + 1].imageUrl]_vars

\* Everything failed for scene 0 (placeholder image, empty narration) and scene 1
\* got a model's image and a narration.
C7_Witness ==
  /\ Reading
  /\ Len(story.scenes) = 2
  /\ story.scenes[1].imageUrl = PlaceholderResult(PromptA)
  /\ story.scenes[1].audioUrl = Def(<<>>)
  /\ story.scenes[2].imageUrl = ImagenResult([threw |-> FALSE, bytes |-> <<"Qk0=">>])
  /\ story.scenes[2].audioUrl = Def(<<"blob:">> \o BlobId(<<started, 1>>))

Exhausted(r) == r.ret.asked = <<"imagen", "flash", "placeholder">>

\* C8: two calls of generateSceneImage with the same prompt that both went through
\* the two models return the same thing, whatever the order of the calls, the
\* scenes that asked, the hero and what the failed models answered.
C8_PlaceholderDeterministic ==
  \A j, k \in 1..Len(imgOut) :
    ( /\ Exhausted(imgOut[j]) /\ Exhausted(imgOut[k])
      /\ imgIn[imgOut[j].call].imagePrompt = imgIn[imgOut[k].call].imagePrompt ) =>
      imgOut[j].ret = imgOut[k].ret

\* Call 2 made before call 1, same prompt, different hero and different failures.
C8_Witness ==
  /\ Len(imgOut) = 2
  /\ imgOut[1].call = 2
  /\ CallerIndex(imgOut[1].call) # CallerIndex(imgOut[2].call)
  /\ Exhausted(imgOut[1]) /\ Exhausted(imgOut[2])
  /\ ~imgOut[1].ret.rejected
  /\ imgIn[1].imagePrompt = imgIn[2].imagePrompt
  /\ imgIn[1].heroDescription # imgIn[2].heroDescription
  /\ imgIn[1].imagen.threw /\ ~imgIn[2].imagen.threw
  /\ imgIn[1].flash.threw /\ ~imgIn[2].flash.threw

\* C9: the voice asked for is 'Zephyr' for TODDLER and KIDS, 'Puck' for PRETEEN
\* and 'Kore' for TEEN and for any other value, whatever the text.
C9_VoiceByAgeGroup ==
  (fnCase = "voice" /\ audioOut # "") =>
    audioOut = CASE audioIn.ageGroup \in {"3-4 ans", "5-7 ans"} -> "Zephyr"
                 [] audioIn.ageGroup = "8-10 ans" -> "Puck"
                 [] OTHER -> "Kore"

\* The voice of a value outside the enum, for a non-empty text.
C9_Witness ==
  /\ fnCase = "voice"
  /\ audioIn.ageGroup \notin AgeGroup
  /\ audioIn.text # <<>>
  /\ audioOut = "Kore"

ReadUint32LE(buffer, offset) ==
  buffer[offset + 1] + 256 * buffer[offset + 2] + 65536 * buffer[offset + 3]
    + 16777216 * buffer[offset + 4]

ReadUint16LE(buffer, offset) == buffer[offset + 1] + 256 * buffer[offset + 2]

\* C10: for a payload of n bytes the output has 44 + n bytes, the RIFF size field
\* holds 36 + n, the data size field n, the format 1, 16 bits per sample, block
\* align 2 * channels, byte rate sampleRate * channels * 2 (2 and 48000 for mono
\* at 24000 Hz), and the bytes from offset 44 on are the payload.
C10_WavHeader ==
  (fnCase = "wav" /\ wavOut # <<>>) =>
    LET n == Len(wavIn.samples)
    IN  /\ Len(wavOut) = 44 + n
        /\ ReadUint32LE(wavOut, 4) = 36 + n
        /\ ReadUint32LE(wavOut, 40) = n
        /\ ReadUint16LE(wavOut, 20) = 1
        /\ ReadUint16LE(wavOut, 34) = 16
        /\ ReadUint16LE(wavOut, 22) = wavIn.numChannels
        /\ ReadUint32LE(wavOut, 24) = wavIn.sampleRate
        /\ ReadUint16LE(wavOut, 32) = 2 * wavIn.numChannels
        /\ ReadUint32LE(wavOut, 28) = wavIn.sampleRate * wavIn.numChannels * 2
        /\ (wavIn.sampleRate = 24000 /\ wavIn.numChannels = 1) =>
             ReadUint16LE(wavOut, 32) = 2 /\ ReadUint32LE(wavOut, 28) = 48000
        /\ SubSeq(wavOut, 45, 44 + n) = wavIn.samples

\* A header computed as the code calls it, mono at 24000 Hz, on a payload of
\* several bytes that are not all zero.
C10_Witness ==
  /\ fnCase = "wav" /\ wavOut # <<>>
  /\ wavIn.sampleRate = 24000 /\ wavIn.numChannels = 1
  /\ Len(wavIn.samples) >= 2
  /\ \E k \in 1..Len(wavIn.samples) : wavIn.samples[k] = 255

CurrentScene == story.scenes[currentSceneIndex + 1]

\* The steps within the reading view in which an audio slot gets a value.
AudioUrlArrives ==
  /\ Reading /\ Reading'
  /\ \E k \in 1..Len(story.scenes) : story'.scenes[k].audioUrl # story.scenes[k].audioUrl

OfEarlierStory(id) == id[1] < started

\* C12 as stated: a step in which a request of a callback of an earlier story
\* settles writes nothing into the story.
C12_NoCrossSessionWrites ==
  [][\A id \in TaskIds :
       (OfEarlierStory(id) /\ (ImageRequestSettles(id) \/ AudioRequestSettles(id))) =>
         story' = story]_vars

\* C13 as stated: as long as the story is not discarded, an asset slot that has
\* been set keeps its value.
C13_SlotsWrittenOnce ==
  [][(~story.null /\ ~story'.null) =>
       \A k \in 1..Len(story.scenes) :
         /\ story.scenes[k].imageUrl.set => story'.scenes[k].imageUrl = story.scenes[k].imageUrl
         /\ story.scenes[k].audioUrl.set => story'.scenes[k].audioUrl = story.scenes[k].audioUrl]_vars

\* C14: whenever the step is 3 and the story has at least one scene,
\* 0 <= currentSceneIndex <= scenes.length - 1; the Previous handler maps index 0
\* to 0; and no step taken at the last scene of the reading view, Next and the
\* end of the narration included, leaves the index above it.
C14_IndexInRange ==
  /\ []((step = 3 /\ ~story.null /\ Len(story.scenes) >= 1) =>
          /\ 0 <= currentSceneIndex
          /\ currentSceneIndex <= Len(story.scenes) - 1)
  /\ [](PrevSceneIndex(0) = 0)
  /\ [][(Reading /\ isLastScene) => currentSceneIndex' <= currentSceneIndex]_vars

\* The narration of the last scene of a two-scene story has ended and the view
\* still shows that scene, assets of an earlier story being still awaited.
C14_Witness ==
  /\ Reading
  /\ Len(story.scenes) = 2 /\ currentSceneIndex = 1
  /\ audioRef.ended
  /\ started = 2
  /\ \E id \in TaskIds : id[1] = 1 /\ Awaiting(tasks[id]) # ""

\* C15: a playing narration is the current scene's; when it ends before the
\* last scene the index advances by exactly one, when it ends at the last scene
\* the index stays; in both cases step and story are unchanged.
C15_NarrationEndAdvances ==
  /\ []((Reading /\ Playing(audioRef)) =>
          /\ CurrentScene.audioUrl = Def(audioRef.src)
          /\ ENABLED NarrationEnded)
  /\ [][NarrationEnded =>
          /\ currentSceneIndex' =
               IF currentSceneIndex < Len(story.scenes) - 1
                 THEN currentSceneIndex + 1
                 ELSE currentSceneIndex
          /\ step' = step
          /\ story' = story]_vars

\* The narration of scene 0 ended and the view moved to the last scene, whose own
\* narration has now ended too.
C15_Witness ==
  /\ Reading
  /\ Len(story.scenes) = 2 /\ currentSceneIndex = 1
  /\ story.scenes[1].audioUrl.set /\ story.scenes[1].audioUrl.url # <<>>
  /\ audioRef.src = story.scenes[2].audioUrl.url
  /\ audioRef.ended /\ audioRef.paused
  /\ isAudioEnabled

\* C16: while the story request is pending the story is null and the form keeps
\* its values; the step in which the request fails (rejection, no text,
\* unparsable JSON, no scenes member) sets the step to 0, leaves story null,
\* leaves every callback as it was, those of this start never launched, and
\* keeps prompt, heroName, selectedAge, selectedGenre and selectedArchetypeId.
C16_StoryFailureBackToInput ==
  /\ [](storyPending => story.null /\ step = 1)
  /\ [][storyPending => formVars' = formVars]_vars
  /\ [][(\E w \in StoryFailures : StoryReject(w)) =>
          /\ step' = 0
          /\ story' = story /\ story'.null
          /\ tasks' = tasks
          /\ \A i \in 0..(MaxScenes - 1) : tasks'[<<started, i>>].st = "idle"
          /\ formVars' = formVars]_vars

\* Back at the form after a failed second start, with what the user entered.
C16_Witness ==
  /\ step = 0 /\ ~storyPending /\ ~crashed
  /\ started = 2
  /\ \A i \in 0..(MaxScenes - 1) : tasks[<<2, i>>].st = "idle"
  /\ prompt = <<"a">> /\ heroName = <<"b">>
  /\ selectedAge = TEEN /\ selectedGenre = MYSTERY /\ selectedArchetypeId = "robot"

\* The TTS answers after which generateSceneAudio goes through its catch.
TtsFailed(o) == o.threw \/ o.data = <<>> \/ atob(o.data).threw

\* C17: whatever the TTS request does, the callback ends (generateSceneAudio does
\* not reject), and on a failed answer the slot of a scene of the installed story
\* becomes the empty string; while the current scene's audioUrl is the empty
\* string the narration element is paused, its track cannot end, and the index
\* changes only by Next, Previous or a reset.
C17_FailedNarrationIsEmpty ==
  /\ [][\A id \in TaskIds :
          /\ AudioRequestSettles(id) => tasks'[id] = DoneTask
          /\ (OfInstalledStory(id)
                /\ \E o \in TtsOutcomes : TtsFailed(o) /\ TtsResolve(id, o)) =>
               story'.scenes[id[2] + 1].audioUrl = Def(<<>>)]_vars
  /\ []((Reading /\ CurrentScene.audioUrl = Def(<<>>)) =>
          /\ audioRef.paused
          /\ ~Playing(audioRef)
          /\ ~ENABLED NarrationEnded)
  /\ [][(Reading /\ CurrentScene.audioUrl = Def(<<>>)
           /\ currentSceneIndex' # currentSceneIndex) =>
          (NextClick \/ PrevClick \/ HandleReset)]_vars

\* The narration of scene 0 has been played; scene 1, whose narration failed, is
\* shown with narration on and the element paused.
C17_Witness ==
  /\ Reading
  /\ currentSceneIndex = 1
  /\ CurrentScene.audioUrl = Def(<<>>)
  /\ isAudioEnabled
  /\ audioRef.src # <<>> /\ audioRef.paused

\* A step that runs handleReset: Accueil, or Next on the last scene.
ResetStep == HandleReset \/ (NextClick /\ isLastScene)

\* C18: a reset sets the step to 0, story to null, the index to 0 and the prompt
\* to the empty string and keeps heroName, selectedAge, selectedGenre and
\* selectedArchetypeId; while story is null a settling asset request leaves story
\* null and the step as it is, so that at step 0 the form stays.
C18_ResetDiscardsStory ==
  /\ [][ResetStep =>
          /\ step' = 0 /\ story' = NullStory /\ currentSceneIndex' = 0 /\ prompt' = <<>>
          /\ heroName' = heroName
          /\ selectedAge' = selectedAge
          /\ selectedGenre' = selectedGenre
          /\ selectedArchetypeId' = selectedArchetypeId]_vars
  /\ [][(story.null /\ \E id \in TaskIds : ImageRequestSettles(id) \/ AudioRequestSettles(id)) =>
          story' = NullStory /\ step' = step]_vars
  /\ [](step = 0 => story.null /\ currentSceneIndex = 0)

\* After a reset from scene 1, callbacks of the discarded story have settled and
\* another is still awaited; the form keeps the hero and the selects.
C18_Witness ==
  /\ step = 0 /\ story.null /\ started = 1
  /\ prompt = <<>> /\ heroName = <<"b">>
  /\ selectedAge = TEEN /\ selectedGenre = MYSTERY /\ selectedArchetypeId = "robot"
  /\ tasks[<<1, 0>>].st = "done"
  /\ Awaiting(tasks[<<1, 1>>]) = "tts"

====
